---- MODULE Spec2Model ----
(***************************************************************************)
(* Recurring lesson scheduler of mmsys (src/server.js, AulasHandlers).     *)
(*                                                                         *)
(* The store is SQLite as opened by Database.initialize: the connection    *)
(* never issues PRAGMA foreign_keys, so ON DELETE CASCADE is declared but  *)
(* not enforced; UNIQUE and CHECK constraints are enforced.  The handlers   *)
(* write '?' placeholders and read the new rowid from the statement, which *)
(* only the SQLite branch of Database.run serves.                          *)
(*                                                                         *)
(* Every await of a handler is one step: the step runs the statement and   *)
(* the code that follows it up to the next await or to the response.       *)
(*                                                                         *)
(* Calendar days are integers, day 0 being a Sunday, so that the weekday   *)
(* of day n is n % 7.  Instants are hours since the midnight (UTC) that    *)
(* starts day 0.  A stored date text is a record [f, d]: f = "date" is     *)
(* 'YYYY-MM-DD' of day d, f = "datetime" is 'YYYY-MM-DDT12:00' of day d,   *)
(* f = "instant" is 'YYYY-MM-DDTHH:00Z' with d the hour it names,           *)
(* f = "invalid" is a text that does not parse.                            *)
(***************************************************************************)
EXTENDS Integers, Sequences, FiniteSets, TLC

\* ------------------------------------------------------------------ bounds
MaxRequests == 3
MaxSemanas == 6
NowDay == 16

\* ------------------------------------------------------- bounded input sets
TzOffsets == {0 - 3, 0}
TzOffsetsDatas == {0 - 3, 0, 2}
StartDates == {8, 10}
DiasInputs == { <<>>, <<1>>, <<3, 1>>, <<1, 1>>, <<1, 7>> }
\* teachers are kept by the generic CRUD handlers; one is on file
ProfessorIds == {1}
Professores == {1}
Motivos == {"chuva"}
AulaIds == {1, 2}
AgendadaIds == {1, 2, 50}
ReagendarIds == {1, 50}
Slots == {1, 2}

Undefined == [f |-> "undefined", d |-> 0]
DateText(day) == [f |-> "date", d |-> day]
DateTimeText(day) == [f |-> "datetime", d |-> day]
InstantText(hour) == [f |-> "instant", d |-> hour]
InvalidText == [f |-> "invalid", d |-> 0]

SemanasInputs ==
  {[def |-> FALSE, n |-> 0]} \cup
  {[def |-> TRUE, n |-> k] : k \in {0, 1, MaxSemanas - 1, MaxSemanas}}

\* 24 * NowDay + 10 is the current moment (see InitStore)
NovaDataInputs ==
  {Undefined, InvalidText, InstantText(24 * NowDay + 10)} \cup
  {DateText(NowDay), DateText(NowDay + 6), DateTimeText(NowDay + 6)}

\* query string of the listing by period: both ends or none
Periodos ==
  {[data_inicio |-> Undefined, data_fim |-> Undefined],
   [data_inicio |-> DateText(10), data_fim |-> DateText(NowDay + 6)]}

\* query string of the weekly agenda: no anchor, a Wednesday, a Monday
Ancoras == {Undefined, DateText(10), DateText(8)}

\* the requests that may overlap are drawn from smaller sets
ConcStartDates == {10}
ConcDiasInputs == { <<1>>, <<1, 7>> }
ConcAulaIds == {1}
ConcSemanasInputs == {[def |-> FALSE, n |-> 0], [def |-> TRUE, n |-> MaxSemanas - 1]}
ConcAgendadaIds == {1}
ConcNovaDataInputs == {DateText(NowDay + 6), DateTimeText(NowDay + 6)}

VARIABLES
  tz,                    \* local offset from UTC of the server process, hours
  now,                   \* the instant new Date() returns
  aulas_configuradas,    \* set of rows [id, data_inicio]
  seq_aulas,             \* AUTOINCREMENT high-water mark of aulas_configuradas
  aulas_dias_semana,     \* rows [aula_id, dia_semana] in rowid order
  aulas_agendadas,       \* rows [aula_configurada_id, data_aula, status]; id = index
  aulas_reagendamentos,  \* rows [aula_agendada_id, nova_data, motivo]; id = index
  req,                   \* per slot: the request being served and its response
  started,               \* number of requests received so far
  calc                   \* the date computation under test (SpecDatas)

vars == <<tz, now, aulas_configuradas, seq_aulas, aulas_dias_semana,
          aulas_agendadas, aulas_reagendamentos, req, started, calc>>

db == <<aulas_configuradas, seq_aulas, aulas_dias_semana,
        aulas_agendadas, aulas_reagendamentos>>

\* ----------------------------------------------------------- JavaScript Date
\* a % b of JavaScript: the remainder takes the sign of the dividend
JsMod(a, b) == IF a >= 0 THEN a % b ELSE 0 - ((0 - a) % b)

\* new Date(text): a date-only text is UTC midnight, a date-time text without
\* zone is local wall-clock time, one with Z is that UTC instant, anything else
\* is an Invalid Date (NaN)
NewDate(text, off) ==
  CASE text.f = "date" -> [nan |-> FALSE, t |-> 24 * text.d]
    [] text.f = "datetime" -> [nan |-> FALSE, t |-> 24 * text.d + 12 - off]
    [] text.f = "instant" -> [nan |-> FALSE, t |-> text.d]
    [] OTHER -> [nan |-> TRUE, t |-> 0]

\* Date.prototype.getDay(): weekday of the local calendar day
getDay(t, off) == ((t + off) \div 24) % 7

\* date.setDate(date.getDate() + n): n local days later, same wall-clock time
\* (the offset is fixed: no daylight-saving change between the two days)
setDate(t, n) == t + 24 * n

\* date.toISOString().split('T')[0]: the UTC calendar day
toISODate(t) == DateText(t \div 24)

diffDias(dia, t, semana, off) == JsMod(dia - getDay(t, off) + 7, 7) + (semana * 7)

\* the data_aula text computed for weekday dia in week semana
dataAula(data_inicio, dia, semana, off) ==
  LET dataInicio == NewDate(data_inicio, off).t
  IN toISODate(setDate(dataInicio, diffDias(dia, dataInicio, semana, off)))

\* ------------------------------------------------------------------ store
\* SELECT * FROM aulas_configuradas WHERE id = ?
AulaRows(id) == {a \in aulas_configuradas : a.id = id}

\* the lookup compares the full timestamp text instead of its date part
AgendadaExiste_SemSplit(ag, aula, data) ==
  \E k \in 1..Len(ag) :
    ag[k].aula_configurada_id = aula /\ ag[k].data_aula = DateTimeText(data.d)

\* SELECT id FROM aulas_agendadas WHERE aula_configurada_id = ? AND data_aula = ?
AgendadaExiste(ag, aula, data) ==
  \E k \in 1..Len(ag) : ag[k].aula_configurada_id = aula /\ ag[k].data_aula = data

\* the lookup without its WHERE clause: the first row of the table
AgendadaRows_SemWhere(ag, id) == IF ag = <<>> THEN {} ELSE {ag[1]}

\* SELECT * FROM aulas_agendadas WHERE id = ?
AgendadaRows(ag, id) == IF id \in 1..Len(ag) THEN {ag[id]} ELSE {}

\* the table without its UNIQUE constraint
InsertAgendadaOk_SemUnique(ag, aula, data) == TRUE

\* UNIQUE(aula_configurada_id, data_aula): the insert is rejected on conflict
InsertAgendadaOk(ag, aula, data) ==
  \A k \in 1..Len(ag) : ~(ag[k].aula_configurada_id = aula /\ ag[k].data_aula = data)

\* the new row entered as already held
NovaAgendada_Realizada(aula, data) ==
  [aula_configurada_id |-> aula, data_aula |-> data, status |-> "realizada"]

\* the new row takes the status of the row it replaces
NovaAgendada_Reagendada(aula, data) ==
  [aula_configurada_id |-> aula, data_aula |-> data, status |-> "reagendada"]

\* INSERT INTO aulas_agendadas: status is 'agendada', by default or as given
NovaAgendada(aula, data) ==
  [aula_configurada_id |-> aula, data_aula |-> data, status |-> "agendada"]

\* the table with its CHECK and without its UNIQUE constraint
InsertDiaOk_SemUnique(ds, aula, dia) == dia >= 0 /\ dia <= 6

\* UNIQUE(aula_id, dia_semana) and CHECK(dia_semana BETWEEN 0 AND 6)
InsertDiaOk(ds, aula, dia) ==
  /\ dia >= 0 /\ dia <= 6
  /\ ~\E k \in 1..Len(ds) : ds[k].aula_id = aula /\ ds[k].dia_semana = dia

\* dia_semana of the rows of one lesson, in rowid order
DiasRowid(ds, aula) ==
  LET rows == SelectSeq(ds, LAMBDA r : r.aula_id = aula)
  IN [k \in 1..Len(rows) |-> rows[k].dia_semana]

RECURSIVE SortedSeq(_)
SortedSeq(S) ==
  IF S = {} THEN <<>>
  ELSE LET m == CHOOSE x \in S : \A y \in S : x <= y
       IN <<m>> \o SortedSeq(S \ {m})

\* the same rows read through the UNIQUE(aula_id, dia_semana) index
DiasIndex(ds, aula) ==
  SortedSeq({ds[k].dia_semana : k \in {j \in 1..Len(ds) : ds[j].aula_id = aula}})

\* SELECT dia_semana FROM aulas_dias_semana WHERE aula_id = ? has no ORDER BY:
\* the row order is the one of whichever access path the engine takes
DiasSelect(ds, aula) == {DiasRowid(ds, aula), DiasIndex(ds, aula)}

\* ---------------------------------------------------------------- requests
NoSemanas == [def |-> FALSE, n |-> 0]
NoPrev == [op |-> "none", id |-> 0, semanas |-> NoSemanas, status |-> 0, n |-> 0]

Idle ==
  [op |-> "none", pc |-> "idle", id |-> 0, semanas |-> NoSemanas,
   data_inicio |-> Undefined, dias |-> <<>>, hasDias |-> FALSE,
   nova_data |-> Undefined, motivo |-> "", aula |-> Undefined, alvo |-> 0,
   semana |-> 0, i |-> 0, agendamentos |-> <<>>, consultadas |-> <<>>,
   status |-> 0, novo_id |-> 0,
   data_fim |-> Undefined, semana_inicio |-> Undefined, semana_fim |-> Undefined,
   resultado |-> {},
   preAg |-> <<>>, preReag |-> <<>>, preAulas |-> {}, preDias |-> <<>>,
   prev |-> NoPrev]

InFlight(s) == req[s].pc \notin {"idle", "done"}

Resumo(r) ==
  [op |-> r.op, id |-> r.id, semanas |-> r.semanas, status |-> r.status,
   n |-> Len(r.agendamentos)]

\* the handlers that only read
Consultas == {"obter", "semanal"}

\* the record of a request that arrives at slot s; when requests are served
\* one at a time it also keeps the tables as they were on arrival and the
\* summary of the writing request served last before it
Chegada(s, op, conc) ==
  IF conc THEN [Idle EXCEPT !.op = op]
  ELSE [Idle EXCEPT !.op = op,
               !.preAg = aulas_agendadas, !.preReag = aulas_reagendamentos,
               !.preAulas = aulas_configuradas, !.preDias = aulas_dias_semana,
               !.prev = IF req[s].pc # "done" THEN NoPrev
                        ELSE IF req[s].op \in Consultas THEN req[s].prev
                        ELSE Resumo(req[s])]

Responder(r, code) == [r EXCEPT !.pc = "done", !.status = code]

Livre(s, conc) ==
  /\ started < MaxRequests
  /\ ~InFlight(s)
  /\ IF conc THEN \A q \in Slots : q < s => InFlight(q)
             ELSE s = 1 /\ \A q \in Slots : ~InFlight(q)

\* a GET request is received when no request is being served
LivreConsulta(s) == s = 1 /\ \A q \in Slots : ~InFlight(q)

\* ------------------------------------------------- AulasHandlers.configurar
\* head of the loop over dias_semana: the range test precedes each insert
ProximoDiaConfigurar(r, i) ==
  IF i > Len(r.dias) THEN [r EXCEPT !.pc = "cfg_insert_ag", !.semana = 0, !.i = 1]
  ELSE IF r.dias[i] < 0 \/ r.dias[i] > 6 THEN [r EXCEPT !.pc = "cfg_delete", !.i = i]
  ELSE [r EXCEPT !.pc = "cfg_insert_dia", !.i = i]

ConfigurarInicio(s, conc) ==
  /\ Livre(s, conc)
  /\ seq_aulas + Cardinality({q \in Slots : req[q].pc = "cfg_insert_aula"})
       < Cardinality(IF conc THEN ConcAulaIds ELSE AulaIds)
  /\ \E professor_id \in ProfessorIds,
        inicio \in (IF conc THEN ConcStartDates ELSE StartDates),
        dias \in (IF conc THEN ConcDiasInputs ELSE DiasInputs) :
       LET r == [Chegada(s, "configurar", conc) EXCEPT
                   !.data_inicio = DateText(inicio), !.dias = dias, !.hasDias = TRUE]
       IN req' = [req EXCEPT ![s] =
                    IF Len(dias) = 0 THEN Responder(r, 400)
                    ELSE IF professor_id \notin Professores THEN Responder(r, 404)
                    ELSE [r EXCEPT !.pc = "cfg_insert_aula"]]
  /\ started' = started + 1
  /\ UNCHANGED <<tz, now, db, calc>>

ConfigurarInserirAula(s) ==
  /\ req[s].pc = "cfg_insert_aula"
  /\ LET aulaId == seq_aulas + 1
     IN /\ seq_aulas' = aulaId
        /\ aulas_configuradas' = aulas_configuradas \cup
             {[id |-> aulaId, data_inicio |-> req[s].data_inicio]}
        /\ req' = [req EXCEPT ![s] = ProximoDiaConfigurar([req[s] EXCEPT !.alvo = aulaId], 1)]
  /\ UNCHANGED <<tz, now, aulas_dias_semana, aulas_agendadas, aulas_reagendamentos,
                 started, calc>>

ConfigurarInserirDia(s) ==
  /\ req[s].pc = "cfg_insert_dia"
  /\ LET r == req[s]
         dia == r.dias[r.i]
     IN IF InsertDiaOk(aulas_dias_semana, r.alvo, dia)
        THEN /\ aulas_dias_semana' =
                  Append(aulas_dias_semana, [aula_id |-> r.alvo, dia_semana |-> dia])
             /\ req' = [req EXCEPT ![s] = ProximoDiaConfigurar(r, r.i + 1)]
        ELSE /\ req' = [req EXCEPT ![s] = Responder(r, 500)]
             /\ UNCHANGED aulas_dias_semana
  /\ UNCHANGED <<tz, now, aulas_configuradas, seq_aulas, aulas_agendadas,
                 aulas_reagendamentos, started, calc>>

ConfigurarRemover(s) ==
  /\ req[s].pc = "cfg_delete"
  /\ aulas_configuradas' = {a \in aulas_configuradas : a.id # req[s].alvo}
  /\ req' = [req EXCEPT ![s] = Responder(req[s], 400)]
  /\ UNCHANGED <<tz, now, seq_aulas, aulas_dias_semana, aulas_agendadas,
                 aulas_reagendamentos, started, calc>>

\* the look-ahead loop stopping one week short
ProximaAgendadaConfigurar_Curta(r) ==
  IF r.i + 1 <= Len(r.dias) THEN [r EXCEPT !.i = r.i + 1]
  ELSE IF r.semana + 1 < 3 THEN [r EXCEPT !.semana = r.semana + 1, !.i = 1]
  ELSE Responder(r, 201)

\* for (semana = 0; semana < 4; semana++) for (dia of dias_semana)
ProximaAgendadaConfigurar(r) ==
  IF r.i + 1 <= Len(r.dias) THEN [r EXCEPT !.i = r.i + 1]
  ELSE IF r.semana + 1 < 4 THEN [r EXCEPT !.semana = r.semana + 1, !.i = 1]
  ELSE Responder(r, 201)

ConfigurarInserirAgendada(s) ==
  /\ req[s].pc = "cfg_insert_ag"
  /\ LET r == req[s]
         data == dataAula(r.data_inicio, r.dias[r.i], r.semana, tz)
     IN IF InsertAgendadaOk(aulas_agendadas, r.alvo, data)
        THEN /\ aulas_agendadas' = Append(aulas_agendadas, NovaAgendada(r.alvo, data))
             /\ req' = [req EXCEPT ![s] = ProximaAgendadaConfigurar(r)]
        ELSE /\ req' = [req EXCEPT ![s] = Responder(r, 500)]
             /\ UNCHANGED aulas_agendadas
  /\ UNCHANGED <<tz, now, aulas_configuradas, seq_aulas, aulas_dias_semana,
                 aulas_reagendamentos, started, calc>>

\* -------------------------------------------- AulasHandlers.gerarAgendamento
\* semanas || 4
LimiteSemanas(semanas) == IF semanas.def /\ semanas.n # 0 THEN semanas.n ELSE 4

GerarInicio(s, conc) ==
  /\ Livre(s, conc)
  /\ \E id \in (IF conc THEN ConcAulaIds ELSE AulaIds),
        semanas \in (IF conc THEN ConcSemanasInputs ELSE SemanasInputs) :
       LET r == [Chegada(s, "gerar", conc) EXCEPT !.id = id, !.semanas = semanas]
       IN req' = [req EXCEPT ![s] =
                    IF AulaRows(id) = {} THEN Responder(r, 404)
                    ELSE [r EXCEPT !.pc = "ger_get_dias",
                                   !.aula = (CHOOSE a \in AulaRows(id) : TRUE).data_inicio]]
  /\ started' = started + 1
  /\ UNCHANGED <<tz, now, db, calc>>

GerarObterDias(s) ==
  /\ req[s].pc = "ger_get_dias"
  /\ \E dias \in DiasSelect(aulas_dias_semana, req[s].id) :
       LET r == [req[s] EXCEPT !.dias = dias]
       IN req' = [req EXCEPT ![s] =
                    IF Len(dias) = 0 THEN Responder(r, 400)
                    ELSE IF ~(0 < LimiteSemanas(r.semanas)) THEN Responder(r, 200)
                    ELSE [r EXCEPT !.pc = "ger_check", !.semana = 0, !.i = 1]]
  /\ UNCHANGED <<tz, now, db, started, calc>>

\* the loop running one week too far: semana <= (semanas || 4)
ProximaAgendadaGerar_UmaAMais(r) ==
  IF r.i + 1 <= Len(r.dias) THEN [r EXCEPT !.pc = "ger_check", !.i = r.i + 1]
  ELSE IF r.semana + 1 <= LimiteSemanas(r.semanas)
       THEN [r EXCEPT !.pc = "ger_check", !.semana = r.semana + 1, !.i = 1]
  ELSE Responder(r, 200)

\* for (semana = 0; semana < (semanas || 4); semana++) for (dia of dias_semana)
ProximaAgendadaGerar(r) ==
  IF r.i + 1 <= Len(r.dias) THEN [r EXCEPT !.pc = "ger_check", !.i = r.i + 1]
  ELSE IF r.semana + 1 < LimiteSemanas(r.semanas)
       THEN [r EXCEPT !.pc = "ger_check", !.semana = r.semana + 1, !.i = 1]
  ELSE Responder(r, 200)

\* the loop without its existence lookup: every candidate goes to the insert
GerarVerificar_SemConsulta(s) ==
  /\ req[s].pc = "ger_check"
  /\ LET r == req[s]
         data == dataAula(r.aula, r.dias[r.i], r.semana, tz)
     IN req' = [req EXCEPT ![s] =
                  [r EXCEPT !.consultadas = Append(r.consultadas, data),
                            !.pc = "ger_insert"]]
  /\ UNCHANGED <<tz, now, db, started, calc>>

GerarVerificar(s) ==
  /\ req[s].pc = "ger_check"
  /\ LET r == req[s]
         data == dataAula(r.aula, r.dias[r.i], r.semana, tz)
         r2 == [r EXCEPT !.consultadas = Append(r.consultadas, data)]
     IN req' = [req EXCEPT ![s] =
                  IF AgendadaExiste(aulas_agendadas, r.id, data)
                  THEN ProximaAgendadaGerar(r2)
                  ELSE [r2 EXCEPT !.pc = "ger_insert"]]
  /\ UNCHANGED <<tz, now, db, started, calc>>

\* the id taken before the insert: the rowid of the row before
RegistroGerado_IdAnterior(ag, data) == [id |-> Len(ag), data_aula |-> data]

\* { id: result.id, data_aula }: result.id is the rowid of the row just inserted
RegistroGerado(ag, data) == [id |-> Len(ag) + 1, data_aula |-> data]

\* the insert written as INSERT OR IGNORE: a conflict is passed over in silence
GerarInserir_OuIgnora(s) ==
  /\ req[s].pc = "ger_insert"
  /\ LET r == req[s]
         data == dataAula(r.aula, r.dias[r.i], r.semana, tz)
         novo == RegistroGerado(aulas_agendadas, data)
     IN IF InsertAgendadaOk(aulas_agendadas, r.id, data)
        THEN /\ aulas_agendadas' = Append(aulas_agendadas, NovaAgendada(r.id, data))
             /\ req' = [req EXCEPT ![s] = ProximaAgendadaGerar(
                          [r EXCEPT !.agendamentos = Append(r.agendamentos, novo)])]
        ELSE /\ req' = [req EXCEPT ![s] = ProximaAgendadaGerar(r)]
             /\ UNCHANGED aulas_agendadas
  /\ UNCHANGED <<tz, now, aulas_configuradas, seq_aulas, aulas_dias_semana,
                 aulas_reagendamentos, started, calc>>

GerarInserir(s) ==
  /\ req[s].pc = "ger_insert"
  /\ LET r == req[s]
         data == dataAula(r.aula, r.dias[r.i], r.semana, tz)
         novo == RegistroGerado(aulas_agendadas, data)
     IN IF InsertAgendadaOk(aulas_agendadas, r.id, data)
        THEN /\ aulas_agendadas' = Append(aulas_agendadas, NovaAgendada(r.id, data))
             /\ req' = [req EXCEPT ![s] = ProximaAgendadaGerar(
                          [r EXCEPT !.agendamentos = Append(r.agendamentos, novo)])]
        ELSE /\ req' = [req EXCEPT ![s] = Responder(r, 500)]
             /\ UNCHANGED aulas_agendadas
  /\ UNCHANGED <<tz, now, aulas_configuradas, seq_aulas, aulas_dias_semana,
                 aulas_reagendamentos, started, calc>>

\* the failed call undone: the rows the run had inserted are taken back
GerarInserirFalha_Rollback(s) ==
  /\ req[s].pc = "ger_insert"
  /\ aulas_agendadas' =
       SubSeq(aulas_agendadas, 1, Len(aulas_agendadas) - Len(req[s].agendamentos))
  /\ req' = [req EXCEPT ![s] = Responder(req[s], 500)]
  /\ UNCHANGED <<tz, now, aulas_configuradas, seq_aulas, aulas_dias_semana,
                 aulas_reagendamentos, started, calc>>

\* the INSERT rejected by the store for a reason of its own (file locked, disk
\* error): the exception reaches the catch, which answers 500 and undoes nothing
GerarInserirFalha(s) ==
  /\ req[s].pc = "ger_insert"
  /\ req' = [req EXCEPT ![s] = Responder(req[s], 500)]
  /\ UNCHANGED <<tz, now, db, started, calc>>

\* ------------------------------------------------ AulasHandlers.cancelarAula
CancelarInicio(s, conc) ==
  /\ Livre(s, conc)
  /\ \E id \in (IF conc THEN ConcAgendadaIds ELSE AgendadaIds) :
       LET r == [Chegada(s, "cancelar", conc) EXCEPT !.id = id]
       IN req' = [req EXCEPT ![s] =
                    IF AgendadaRows(aulas_agendadas, id) = {} THEN Responder(r, 404)
                    ELSE [r EXCEPT !.pc = "can_update"]]
  /\ started' = started + 1
  /\ UNCHANGED <<tz, now, db, calc>>

\* the update guarded by AND status = 'agendada'
UpdateStatus_SoAgendada(ag, id, status) ==
  [k \in 1..Len(ag) |->
     IF k = id /\ ag[k].status = "agendada" THEN [ag[k] EXCEPT !.status = status]
     ELSE ag[k]]

\* the row removed instead of marked
UpdateStatus_Remove(ag, id, status) ==
  SubSeq(ag, 1, id - 1) \o SubSeq(ag, id + 1, Len(ag))

\* the update without its WHERE clause
UpdateStatus_SemWhere(ag, id, status) ==
  [k \in 1..Len(ag) |-> [ag[k] EXCEPT !.status = status]]

\* UPDATE aulas_agendadas SET status = ? WHERE id = ?
UpdateStatus(ag, id, status) ==
  [k \in 1..Len(ag) |-> IF k = id THEN [ag[k] EXCEPT !.status = status] ELSE ag[k]]

CancelarAtualizar(s) ==
  /\ req[s].pc = "can_update"
  /\ aulas_agendadas' = UpdateStatus(aulas_agendadas, req[s].id, "cancelada")
  /\ req' = [req EXCEPT ![s] = Responder(req[s], 200)]
  /\ UNCHANGED <<tz, now, aulas_configuradas, seq_aulas, aulas_dias_semana,
                 aulas_reagendamentos, started, calc>>

\* ----------------------------------------------- AulasHandlers.reagendarAula
\* the comparison written with < : the current moment itself is let through
DateLeq_Estrito(a, b) == ~a.nan /\ ~b.nan /\ a.t < b.t

\* a <= b on Date objects: false whenever either side is an Invalid Date
DateLeq(a, b) == ~a.nan /\ ~b.nan /\ a.t <= b.t

\* !nova_data || new Date(nova_data) <= new Date()
NovaDataInvalida(nova_data, agora, off) ==
  \/ nova_data = Undefined
  \/ DateLeq(NewDate(nova_data, off), [nan |-> FALSE, t |-> agora])

ReagendarInicio(s, conc) ==
  /\ Livre(s, conc)
  /\ \E id \in (IF conc THEN ConcAgendadaIds ELSE ReagendarIds),
        nova_data \in (IF conc THEN ConcNovaDataInputs ELSE NovaDataInputs),
        motivo \in Motivos :
       LET r == [Chegada(s, "reagendar", conc) EXCEPT
                   !.id = id, !.nova_data = nova_data, !.motivo = motivo]
       IN req' = [req EXCEPT ![s] =
                    IF AgendadaRows(aulas_agendadas, id) = {} THEN Responder(r, 404)
                    ELSE IF NovaDataInvalida(nova_data, now, tz) THEN Responder(r, 400)
                    ELSE [r EXCEPT !.pc = "rea_insert_reag",
                                   !.alvo = (CHOOSE a \in AgendadaRows(aulas_agendadas, id) :
                                               TRUE).aula_configurada_id]]
  /\ started' = started + 1
  /\ UNCHANGED <<tz, now, db, calc>>

\* the step passes without a record being written
ReagendarRegistrar_SemRegistro(s) ==
  /\ req[s].pc = "rea_insert_reag"
  /\ req' = [req EXCEPT ![s].pc = "rea_update"]
  /\ UNCHANGED <<tz, now, db, started, calc>>

ReagendarRegistrar(s) ==
  /\ req[s].pc = "rea_insert_reag"
  /\ aulas_reagendamentos' = Append(aulas_reagendamentos,
       [aula_agendada_id |-> req[s].id, nova_data |-> req[s].nova_data,
        motivo |-> req[s].motivo])
  /\ req' = [req EXCEPT ![s].pc = "rea_update"]
  /\ UNCHANGED <<tz, now, aulas_configuradas, seq_aulas, aulas_dias_semana,
                 aulas_agendadas, started, calc>>

ReagendarAtualizar(s) ==
  /\ req[s].pc = "rea_update"
  /\ aulas_agendadas' = UpdateStatus(aulas_agendadas, req[s].id, "reagendada")
  /\ req' = [req EXCEPT ![s].pc = "rea_insert_ag"]
  /\ UNCHANGED <<tz, now, aulas_configuradas, seq_aulas, aulas_dias_semana,
                 aulas_reagendamentos, started, calc>>

ReagendarInserir(s) ==
  /\ req[s].pc = "rea_insert_ag"
  /\ LET r == req[s]
     IN IF InsertAgendadaOk(aulas_agendadas, r.alvo, r.nova_data)
        THEN /\ aulas_agendadas' =
                  Append(aulas_agendadas, NovaAgendada(r.alvo, r.nova_data))
             /\ req' = [req EXCEPT ![s] =
                          Responder([r EXCEPT !.novo_id = Len(aulas_agendadas) + 1], 200)]
        ELSE /\ req' = [req EXCEPT ![s] = Responder(r, 500)]
             /\ UNCHANGED aulas_agendadas
  /\ UNCHANGED <<tz, now, aulas_configuradas, seq_aulas, aulas_dias_semana,
                 aulas_reagendamentos, started, calc>>

\* ------------------------------------------------- AulasHandlers.excluirAula
ExcluirInicio(s, conc) ==
  /\ Livre(s, conc)
  /\ \E id \in (IF conc THEN ConcAulaIds ELSE AulaIds) :
       LET r == [Chegada(s, "excluir", conc) EXCEPT !.id = id]
       IN req' = [req EXCEPT ![s] =
                    IF AulaRows(id) = {} THEN Responder(r, 404)
                    ELSE [r EXCEPT !.pc = "exc_delete"]]
  /\ started' = started + 1
  /\ UNCHANGED <<tz, now, db, calc>>

\* DELETE FROM aulas_configuradas WHERE id = ?  (no cascade: foreign keys are off)
ExcluirRemover(s) ==
  /\ req[s].pc = "exc_delete"
  /\ aulas_configuradas' = {a \in aulas_configuradas : a.id # req[s].id}
  /\ req' = [req EXCEPT ![s] = Responder(req[s], 200)]
  /\ UNCHANGED <<tz, now, seq_aulas, aulas_dias_semana, aulas_agendadas,
                 aulas_reagendamentos, started, calc>>

\* ----------------------------------------------- AulasHandlers.atualizarAula
AtualizarInputs ==
  {[data_inicio |-> Undefined, hasDias |-> FALSE, dias |-> <<>>]} \cup
  {[data_inicio |-> DateText(d), hasDias |-> FALSE, dias |-> <<>>] : d \in StartDates} \cup
  {[data_inicio |-> Undefined, hasDias |-> TRUE, dias |-> ds] : ds \in DiasInputs}

\* head of the loop over the new dias_semana: an out-of-range value returns at once
ProximoDiaAtualizar(r, i) ==
  IF i > Len(r.dias) THEN Responder(r, 200)
  ELSE IF r.dias[i] < 0 \/ r.dias[i] > 6 THEN Responder([r EXCEPT !.i = i], 400)
  ELSE [r EXCEPT !.pc = "atu_insert_dia", !.i = i]

AtualizarInicio(s, conc) ==
  /\ Livre(s, conc)
  /\ \E id \in AulaIds, in \in AtualizarInputs :
       LET r == [Chegada(s, "atualizar", conc) EXCEPT !.id = id,
                   !.data_inicio = in.data_inicio, !.hasDias = in.hasDias, !.dias = in.dias]
       IN req' = [req EXCEPT ![s] =
                    IF AulaRows(id) = {} THEN Responder(r, 404)
                    ELSE IF in.data_inicio = Undefined /\ ~in.hasDias THEN Responder(r, 400)
                    ELSE IF in.data_inicio # Undefined THEN [r EXCEPT !.pc = "atu_update"]
                    ELSE [r EXCEPT !.pc = "atu_delete_dias"]]
  /\ started' = started + 1
  /\ UNCHANGED <<tz, now, db, calc>>

\* UPDATE aulas_configuradas SET data_inicio = ? WHERE id = ?
AtualizarDados(s) ==
  /\ req[s].pc = "atu_update"
  /\ aulas_configuradas' =
       {IF a.id = req[s].id THEN [a EXCEPT !.data_inicio = req[s].data_inicio] ELSE a :
          a \in aulas_configuradas}
  /\ req' = [req EXCEPT ![s] =
               IF req[s].hasDias THEN [req[s] EXCEPT !.pc = "atu_delete_dias"]
               ELSE Responder(req[s], 200)]
  /\ UNCHANGED <<tz, now, seq_aulas, aulas_dias_semana, aulas_agendadas,
                 aulas_reagendamentos, started, calc>>

\* DELETE FROM aulas_dias_semana WHERE aula_id = ?
AtualizarRemoverDias(s) ==
  /\ req[s].pc = "atu_delete_dias"
  /\ aulas_dias_semana' = SelectSeq(aulas_dias_semana, LAMBDA d : d.aula_id # req[s].id)
  /\ req' = [req EXCEPT ![s] = ProximoDiaAtualizar(req[s], 1)]
  /\ UNCHANGED <<tz, now, aulas_configuradas, seq_aulas, aulas_agendadas,
                 aulas_reagendamentos, started, calc>>

AtualizarInserirDia(s) ==
  /\ req[s].pc = "atu_insert_dia"
  /\ LET r == req[s]
         dia == r.dias[r.i]
     IN IF InsertDiaOk(aulas_dias_semana, r.id, dia)
        THEN /\ aulas_dias_semana' =
                  Append(aulas_dias_semana, [aula_id |-> r.id, dia_semana |-> dia])
             /\ req' = [req EXCEPT ![s] = ProximoDiaAtualizar(r, r.i + 1)]
        ELSE /\ req' = [req EXCEPT ![s] = Responder(r, 500)]
             /\ UNCHANGED aulas_dias_semana
  /\ UNCHANGED <<tz, now, aulas_configuradas, seq_aulas, aulas_agendadas,
                 aulas_reagendamentos, started, calc>>

\* ------------------------------------------------------------- the queries
\* rank of a text in the byte order the store compares TEXT values by:
\* 'YYYY-MM-DD' < 'YYYY-MM-DDTHH:00' < 'YYYY-MM-DDTHH:00Z' < the next day,
\* and a text that starts with a letter comes after every date
TextoRank(text) ==
  CASE text.f = "date" -> 100 * text.d
    [] text.f = "datetime" -> 100 * text.d + 2 * 12 + 1
    [] text.f = "instant" -> 100 * (text.d \div 24) + 2 * (text.d % 24) + 2
    [] OTHER -> 100 * 1000

\* data_aula BETWEEN ? AND ?
Between(text, lo, hi) ==
  TextoRank(lo) <= TextoRank(text) /\ TextoRank(text) <= TextoRank(hi)

\* one row of aa LEFT JOIN ar: occurrence k with reschedule record j (ar = j),
\* or with NULLs when it has none (ar = 0)
LinhaJunta(ag, reag, k, j) ==
  [id |-> k, aula_configurada_id |-> ag[k].aula_configurada_id,
   data_aula |-> ag[k].data_aula, status |-> ag[k].status, ar |-> j,
   nova_data |-> IF j = 0 THEN Undefined ELSE reag[j].nova_data,
   motivo |-> IF j = 0 THEN "" ELSE reag[j].motivo]

\* FROM aulas_agendadas aa LEFT JOIN aulas_reagendamentos ar
\*   ON aa.id = ar.aula_agendada_id, for the occurrences K: the rows returned
\* (the array is ordered by data_aula; the order of the rows is not kept here)
LeftJoinReagendamentos(ag, reag, K) ==
  UNION {LET J == {j \in 1..Len(reag) : reag[j].aula_agendada_id = k}
         IN IF J = {} THEN {LinhaJunta(ag, reag, k, 0)}
            ELSE {LinhaJunta(ag, reag, k, j) : j \in J} : k \in K}

\* ---------------------------------------------- AulasHandlers.obterAgendamento
ObterAgendamentoInicio(s) ==
  /\ LivreConsulta(s)
  /\ \E id \in AulaIds, periodo \in Periodos :
       LET r == [Chegada(s, "obter", FALSE) EXCEPT !.id = id,
                   !.data_inicio = periodo.data_inicio, !.data_fim = periodo.data_fim]
       IN req' = [req EXCEPT ![s] =
                    IF AulaRows(id) = {} THEN Responder(r, 404)
                    ELSE [r EXCEPT !.pc = "obt_query"]]
  /\ UNCHANGED <<tz, now, db, started, calc>>

ObterAgendamentoConsultar(s) ==
  /\ req[s].pc = "obt_query"
  /\ LET r == req[s]
         K == {k \in 1..Len(aulas_agendadas) :
                 /\ aulas_agendadas[k].aula_configurada_id = r.id
                 /\ (r.data_inicio # Undefined /\ r.data_fim # Undefined)
                      => Between(aulas_agendadas[k].data_aula, r.data_inicio, r.data_fim)}
     IN req' = [req EXCEPT ![s] = Responder(
                  [r EXCEPT !.resultado =
                     LeftJoinReagendamentos(aulas_agendadas, aulas_reagendamentos, K)], 200)]
  /\ UNCHANGED <<tz, now, db, started, calc>>

\* -------------------------------------------- AulasHandlers.obterAgendaSemanal
\* the anchor as given, or the current moment moved to the Monday of its week
InicioSemana(data_inicio, agora, off) ==
  IF data_inicio # Undefined THEN NewDate(data_inicio, off).t
  ELSE LET dia == getDay(agora, off)
       IN setDate(agora, (0 - dia) + (IF dia = 0 THEN 0 - 6 ELSE 1))

\* fimSemana.setDate(inicioSemana.getDate() + 6)
FimSemana(inicioSemana) == setDate(inicioSemana, 6)

ObterAgendaSemanal(s) ==
  /\ LivreConsulta(s)
  /\ \E data_inicio \in Ancoras :
       LET r == [Chegada(s, "semanal", FALSE) EXCEPT !.data_inicio = data_inicio]
           inicioSemana == InicioSemana(data_inicio, now, tz)
           lo == toISODate(inicioSemana)
           hi == toISODate(FimSemana(inicioSemana))
           K == {k \in 1..Len(aulas_agendadas) :
                   /\ AulaRows(aulas_agendadas[k].aula_configurada_id) # {}
                   /\ Between(aulas_agendadas[k].data_aula, lo, hi)}
       IN req' = [req EXCEPT ![s] = Responder(
                    [r EXCEPT !.semana_inicio = lo, !.semana_fim = hi,
                              !.resultado = LeftJoinReagendamentos(
                                 aulas_agendadas, aulas_reagendamentos, K)], 200)]
  /\ UNCHANGED <<tz, now, db, started, calc>>

\* ------------------------------------------------------- date computation
NoCalc == [data_inicio |-> 0, dia |-> 0, semana |-> 0, done |-> FALSE, out |-> Undefined]

\* lines 1032-1034 and 1039 applied to one (start date, weekday, week)
Calcular ==
  /\ ~calc.done
  /\ calc' = [calc EXCEPT !.done = TRUE,
                !.out = dataAula(DateText(calc.data_inicio), calc.dia, calc.semana, tz)]
  /\ UNCHANGED <<tz, now, db, req, started>>

\* ----------------------------------------------------------- specifications
InitStore ==
  /\ now = 24 * NowDay + 10
  /\ aulas_configuradas = {}
  /\ seq_aulas = 0
  /\ aulas_dias_semana = <<>>
  /\ aulas_agendadas = <<>>
  /\ aulas_reagendamentos = <<>>
  /\ req = [s \in Slots |-> Idle]
  /\ started = 0

Init ==
  /\ tz \in TzOffsets
  /\ InitStore
  /\ calc = NoCalc

Passo(s) ==
  \/ ConfigurarInserirAula(s)
  \/ ConfigurarInserirDia(s)
  \/ ConfigurarRemover(s)
  \/ ConfigurarInserirAgendada(s)
  \/ GerarObterDias(s)
  \/ GerarVerificar(s)
  \/ GerarInserir(s)
  \/ CancelarAtualizar(s)
  \/ ReagendarRegistrar(s)
  \/ ReagendarAtualizar(s)
  \/ ReagendarInserir(s)
  \/ ExcluirRemover(s)
  \/ AtualizarDados(s)
  \/ AtualizarRemoverDias(s)
  \/ AtualizarInserirDia(s)

Receber(s, conc) ==
  \/ ConfigurarInicio(s, conc)
  \/ GerarInicio(s, conc)
  \/ CancelarInicio(s, conc)
  \/ ReagendarInicio(s, conc)
  \/ ExcluirInicio(s, conc)
  \/ AtualizarInicio(s, conc)

\* one request at a time: a request is received only when none is being served
Next == \E s \in Slots : Receber(s, FALSE) \/ Passo(s)

Spec == Init /\ [][Next]_vars

\* requests overlap: each suspends at its persistence calls
PassoConc(s) ==
  \/ ConfigurarInserirAula(s)
  \/ ConfigurarInserirDia(s)
  \/ ConfigurarRemover(s)
  \/ ConfigurarInserirAgendada(s)
  \/ GerarObterDias(s)
  \/ GerarVerificar(s)
  \/ GerarInserir(s)
  \/ CancelarAtualizar(s)
  \/ ReagendarRegistrar(s)
  \/ ReagendarAtualizar(s)
  \/ ReagendarInserir(s)
  \/ ExcluirRemover(s)

ReceberConc(s) ==
  \/ ConfigurarInicio(s, TRUE)
  \/ GerarInicio(s, TRUE)
  \/ CancelarInicio(s, TRUE)
  \/ ReagendarInicio(s, TRUE)
  \/ ExcluirInicio(s, TRUE)

NextConc == \E s \in Slots : ReceberConc(s) \/ PassoConc(s)

SpecConc == Init /\ [][NextConc]_vars

\* the queries, between writing requests that are served one at a time
PassoConsultas(s) ==
  \/ ConfigurarInserirAula(s)
  \/ ConfigurarInserirDia(s)
  \/ ConfigurarRemover(s)
  \/ ConfigurarInserirAgendada(s)
  \/ CancelarAtualizar(s)
  \/ ReagendarRegistrar(s)
  \/ ReagendarAtualizar(s)
  \/ ReagendarInserir(s)
  \/ ExcluirRemover(s)
  \/ ObterAgendamentoConsultar(s)

ReceberConsultas(s) ==
  \/ LivreConsulta(s) /\ ConfigurarInicio(s, TRUE)
  \/ LivreConsulta(s) /\ CancelarInicio(s, TRUE)
  \/ LivreConsulta(s) /\ ReagendarInicio(s, TRUE)
  \/ LivreConsulta(s) /\ ExcluirInicio(s, TRUE)
  \/ ObterAgendamentoInicio(s)
  \/ ObterAgendaSemanal(s)

NextConsultas == \E s \in Slots : ReceberConsultas(s) \/ PassoConsultas(s)

SpecConsultas == Init /\ [][NextConsultas]_vars

\* configure and generate-occurrences served one at a time, over a store whose
\* inserts may fail
PassoFalha(s) ==
  \/ ConfigurarInserirAula(s)
  \/ ConfigurarInserirDia(s)
  \/ ConfigurarRemover(s)
  \/ ConfigurarInserirAgendada(s)
  \/ GerarObterDias(s)
  \/ GerarVerificar(s)
  \/ GerarInserir(s)
  \/ GerarInserirFalha(s)

ReceberFalha(s) ==
  \/ ConfigurarInicio(s, FALSE)
  \/ GerarInicio(s, FALSE)

NextFalha == \E s \in Slots : ReceberFalha(s) \/ PassoFalha(s)

SpecFalha == Init /\ [][NextFalha]_vars

InitDatas ==
  /\ tz \in TzOffsetsDatas
  /\ InitStore
  /\ calc \in [data_inicio : 7..13, dia : 0..6, semana : 0..(MaxSemanas - 1),
               done : {FALSE}, out : {Undefined}]

NextDatas == Calcular

SpecDatas == InitDatas /\ [][NextDatas]_vars

\* ==================================================================== claims
Done(s, op, code) == req[s].pc = "done" /\ req[s].op = op /\ req[s].status = code

\* the rows of lesson aula, as the set of their data_aula
DatasDaAula(ag, aula) ==
  {ag[k].data_aula : k \in {j \in 1..Len(ag) : ag[j].aula_configurada_id = aula}}

\* the candidate dates of weeks lo..hi-1 for the weekdays dias
Candidatas(inicio, dias, lo, hi) ==
  {dataAula(inicio, dias[j], k, tz) : j \in 1..Len(dias), k \in lo..(hi - 1)}

\* C5: for every start date d, weekday w and week k the generated date is
\* d + ((w - weekday(d) + 7) mod 7) + 7k, the k-th date on or after d whose
\* weekday is w.
C5_DataGerada ==
  calc.done =>
    calc.out = DateText(calc.data_inicio
                        + ((calc.dia - (calc.data_inicio % 7) + 7) % 7)
                        + 7 * calc.semana)

\* What the code computes where the local clock is behind UTC: the weekday is
\* taken one day early and every date falls on weekday w + 1.
DataGeradaDeFato ==
  calc.done =>
    LET d == calc.data_inicio
        wd == IF tz < 0 THEN (d - 1) % 7 ELSE d % 7
    IN calc.out = DateText(d + ((calc.dia - wd + 7) % 7) + 7 * calc.semana)

\* C1: a second generate-occurrences run right after a successful one, for the
\* same lesson and week count, answers 200, inserts nothing and leaves the
\* occurrence table exactly as the first run left it.
C1_GerarDuasVezes ==
  \A s \in Slots :
    (/\ req[s].pc = "done" /\ req[s].op = "gerar"
     /\ req[s].prev.op = "gerar" /\ req[s].prev.status = 200
     /\ req[s].prev.id = req[s].id /\ req[s].prev.semanas = req[s].semanas)
    => /\ req[s].status = 200
       /\ req[s].agendamentos = <<>>
       /\ aulas_agendadas = req[s].preAg

C1_Witness ==
  \E s \in Slots :
    /\ Done(s, "gerar", 200)
    /\ req[s].prev.op = "gerar" /\ req[s].prev.status = 200
    /\ req[s].prev.id = req[s].id /\ req[s].prev.semanas = req[s].semanas
    /\ req[s].prev.n > 0

C3_ReagendarSucesso ==
  \A s \in Slots :
    Done(s, "reagendar", 200) =>
      LET r == req[s]
          aula == r.preAg[r.id].aula_configurada_id
      IN /\ aulas_reagendamentos =
              Append(r.preReag, [aula_agendada_id |-> r.id, nova_data |-> r.nova_data,
                                 motivo |-> r.motivo])
         /\ aulas_agendadas[r.id].status = "reagendada"
         /\ {k \in 1..Len(aulas_agendadas) :
               /\ aulas_agendadas[k].aula_configurada_id = aula
               /\ aulas_agendadas[k].data_aula = r.nova_data
               /\ aulas_agendadas[k].status = "agendada"} = {r.novo_id}
         /\ r.novo_id \notin 1..Len(r.preAg)

C3_Witness ==
  \E s \in Slots :
    /\ Done(s, "reagendar", 200)
    /\ req[s].preAg[req[s].id].status = "agendada"
    /\ req[s].nova_data.f = "date"

\* C4: cancel on an existing occurrence answers 200 and leaves that occurrence
\* with status cancelada whatever its status was; a second cancel right after
\* the first leaves the tables as the first left them.
C4_CancelarSempreCancela ==
  \A s \in Slots :
    (req[s].pc = "done" /\ req[s].op = "cancelar" /\ req[s].id \in 1..Len(req[s].preAg))
    => /\ req[s].status = 200
       /\ aulas_agendadas[req[s].id].status = "cancelada"
       /\ \A k \in 1..Len(req[s].preAg) :
            k # req[s].id => aulas_agendadas[k] = req[s].preAg[k]
       /\ (req[s].prev.op = "cancelar" /\ req[s].prev.id = req[s].id)
            => (aulas_agendadas = req[s].preAg /\ aulas_reagendamentos = req[s].preReag)

\* a cancel of an occurrence that had been rescheduled
C4_Witness ==
  \E s \in Slots :
    /\ Done(s, "cancelar", 200)
    /\ req[s].preAg[req[s].id].status = "reagendada"

\* a cancel of an occurrence that the request before had cancelled
C4_WitnessDuasVezes ==
  \E s \in Slots :
    /\ Done(s, "cancelar", 200)
    /\ req[s].prev.op = "cancelar" /\ req[s].prev.id = req[s].id /\ req[s].prev.status = 200

\* the data_aula of the entries of a returned list
DatasDaLista(lista) == {lista[j].data_aula : j \in 1..Len(lista)}

\* a generate run with week count n answered 200 right after one with week
\* count m < n for the same lesson
RodadaMaior(s) ==
  /\ Done(s, "gerar", 200)
  /\ req[s].prev.op = "gerar" /\ req[s].prev.status = 200 /\ req[s].prev.id = req[s].id
  /\ req[s].prev.semanas.def /\ req[s].semanas.def
  /\ 1 <= req[s].prev.semanas.n /\ req[s].prev.semanas.n < req[s].semanas.n

\* C6 as stated: after a run with week count m, a run with week count n > m
\* creates exactly the occurrences of weeks m..n-1 of each weekday.
C6_SegundaRodadaExata ==
  \A s \in Slots :
    RodadaMaior(s) =>
      DatasDaLista(req[s].agendamentos) =
        Candidatas(req[s].aula, req[s].dias, req[s].prev.semanas.n, req[s].semanas.n)

\* C6 amended: the second run creates exactly the occurrences for those dates
\* of weeks m..n-1 that had no occurrence when it started, each once, and none
\* for a date of weeks 0..m-1.
C6_SegundaRodadaSoFaltantes ==
  \A s \in Slots :
    RodadaMaior(s) =>
      LET r == req[s]
          m == r.prev.semanas.n
          novas == DatasDaLista(r.agendamentos)
      IN /\ novas = Candidatas(r.aula, r.dias, m, r.semanas.n) \ DatasDaAula(r.preAg, r.id)
         /\ novas \cap Candidatas(r.aula, r.dias, 0, m) = {}
         /\ Cardinality(novas) = Len(r.agendamentos)
         /\ Len(aulas_agendadas) = Len(r.preAg) + Len(r.agendamentos)
         /\ DatasDaAula(aulas_agendadas, r.id) = DatasDaAula(r.preAg, r.id) \cup novas

\* the second run created some dates of weeks m..n-1 and skipped others
C6_Witness ==
  \E s \in Slots :
    /\ RodadaMaior(s)
    /\ req[s].agendamentos # <<>>
    /\ Len(req[s].agendamentos) <
         Cardinality(Candidatas(req[s].aula, req[s].dias,
                                req[s].prev.semanas.n, req[s].semanas.n))

\* C7: the list a generate run returns with 200 is exactly the rows the run
\* inserted: one entry per new row, with that row's id and date, and no entry
\* for a row that existed before.
C7_ListaDosCriados ==
  \A s \in Slots :
    Done(s, "gerar", 200) =>
      LET r == req[s]
      IN /\ Len(aulas_agendadas) = Len(r.preAg) + Len(r.agendamentos)
         /\ \A k \in 1..Len(r.preAg) : aulas_agendadas[k] = r.preAg[k]
         /\ \A j \in 1..Len(r.agendamentos) :
              /\ r.agendamentos[j].id = Len(r.preAg) + j
              /\ aulas_agendadas[Len(r.preAg) + j] =
                   [aula_configurada_id |-> r.id,
                    data_aula |-> r.agendamentos[j].data_aula, status |-> "agendada"]

\* a run that inserted some candidates and skipped others
C7_Witness ==
  \E s \in Slots :
    /\ Done(s, "gerar", 200)
    /\ req[s].agendamentos # <<>>
    /\ Len(req[s].agendamentos) < Len(req[s].consultadas)

\* C8: after configure answers 201 for the weekday list W, the new lesson has
\* one weekday row per element of W (W has no repeated value) and 4 * |W|
\* occurrences, all agendada: for each weekday of W and each week k of 0..3
\* exactly one, at the date generated for that weekday and week, which lies in
\* the k-th 7-day window from the start date.
C8_ConfigurarCria ==
  \A s \in Slots :
    Done(s, "configurar", 201) =>
      LET r == req[s]
          K == {k \in 1..Len(aulas_agendadas) :
                  aulas_agendadas[k].aula_configurada_id = r.alvo}
      IN /\ DiasRowid(aulas_dias_semana, r.alvo) = r.dias
         /\ Cardinality({r.dias[j] : j \in 1..Len(r.dias)}) = Len(r.dias)
         /\ Cardinality(K) = 4 * Len(r.dias)
         /\ \A k \in K : aulas_agendadas[k].status = "agendada"
         /\ \A j \in 1..Len(r.dias), sem \in 0..3 :
              LET data == dataAula(r.data_inicio, r.dias[j], sem, tz)
              IN /\ Cardinality({k \in K : aulas_agendadas[k].data_aula = data}) = 1
                 /\ data.d \in (r.data_inicio.d + 7 * sem)..(r.data_inicio.d + 7 * sem + 6)

C8_Witness ==
  \E s \in Slots : Done(s, "configurar", 201) /\ Len(req[s].dias) = 2

\* C9: a generate run given a week count N >= 0 looks at the candidates of
\* exactly the weeks 0..N-1 (none for N = 0, so that it creates nothing), and
\* at those of 4 weeks only when the week count is omitted.
C9_SemanasInformadas ==
  \A s \in Slots :
    Done(s, "gerar", 200) =>
      LET r == req[s]
          n == IF r.semanas.def THEN r.semanas.n ELSE 4
      IN /\ {r.consultadas[j] : j \in 1..Len(r.consultadas)} =
              Candidatas(r.aula, r.dias, 0, n)
         /\ (n = 0 => r.agendamentos = <<>>)

\* What the code does: a week count of 0 is taken as omitted.
SemanasDeFato ==
  \A s \in Slots :
    Done(s, "gerar", 200) =>
      LET r == req[s]
          n == IF r.semanas.def /\ r.semanas.n >= 1 THEN r.semanas.n ELSE 4
      IN {r.consultadas[j] : j \in 1..Len(r.consultadas)} =
           Candidatas(r.aula, r.dias, 0, n)

\* C10: cancel or reschedule of an occurrence id that does not exist answers
\* 404 and changes no table.
C10_InexistenteNaoMuda ==
  \A s \in Slots :
    (/\ req[s].pc = "done" /\ req[s].op \in {"cancelar", "reagendar"}
     /\ req[s].id \notin 1..Len(req[s].preAg))
    => /\ req[s].status = 404
       /\ aulas_agendadas = req[s].preAg
       /\ aulas_reagendamentos = req[s].preReag
       /\ aulas_configuradas = req[s].preAulas
       /\ aulas_dias_semana = req[s].preDias

\* a reschedule to a valid future date of an id absent from a non-empty table
C10_Witness ==
  \E s \in Slots :
    /\ Done(s, "reagendar", 404)
    /\ req[s].preAg # <<>>
    /\ ~NovaDataInvalida(req[s].nova_data, now, tz)

\* C11: reschedule of an existing occurrence with a newDate that parses to the
\* current moment or to an earlier one answers 400 and changes no table: the
\* occurrence keeps its status, no reschedule record and no occurrence is added.
C11_DataPassadaRejeitada ==
  \A s \in Slots :
    (/\ req[s].pc = "done" /\ req[s].op = "reagendar"
     /\ req[s].id \in 1..Len(req[s].preAg)
     /\ ~NewDate(req[s].nova_data, tz).nan
     /\ NewDate(req[s].nova_data, tz).t <= now)
    => /\ req[s].status = 400
       /\ aulas_agendadas = req[s].preAg
       /\ aulas_reagendamentos = req[s].preReag
       /\ aulas_configuradas = req[s].preAulas
       /\ aulas_dias_semana = req[s].preDias

\* a reschedule of an existing occurrence to exactly the current moment
C11_Witness ==
  \E s \in Slots :
    /\ Done(s, "reagendar", 400)
    /\ req[s].id \in 1..Len(req[s].preAg)
    /\ req[s].nova_data.f = "instant"
    /\ NewDate(req[s].nova_data, tz).t = now

\* a reschedule of an existing occurrence to an earlier moment of today
C11_WitnessAntes ==
  \E s \in Slots :
    /\ Done(s, "reagendar", 400)
    /\ req[s].id \in 1..Len(req[s].preAg)
    /\ req[s].nova_data.f = "date"
    /\ NewDate(req[s].nova_data, tz).t < now

\* C12: reschedule of an existing occurrence with a newDate that is present but
\* does not parse to a date answers 400 and adds no reschedule record and no
\* occurrence.
C12_DataInvalidaRejeitada ==
  \A s \in Slots :
    (/\ req[s].pc = "done" /\ req[s].op = "reagendar"
     /\ req[s].id \in 1..Len(req[s].preAg)
     /\ req[s].nova_data # Undefined
     /\ NewDate(req[s].nova_data, tz).nan)
    => /\ req[s].status = 400
       /\ aulas_reagendamentos = req[s].preReag
       /\ Len(aulas_agendadas) = Len(req[s].preAg)

\* What the code does: the text passes the comparison, the record is appended
\* and the occurrence marked; the answer is 200 with a new occurrence whose
\* data_aula is the text, or 500 when the lesson already has one such row.
DataInvalidaDeFato ==
  \A s \in Slots :
    (/\ req[s].pc = "done" /\ req[s].op = "reagendar"
     /\ req[s].id \in 1..Len(req[s].preAg)
     /\ req[s].nova_data # Undefined
     /\ NewDate(req[s].nova_data, tz).nan)
    => /\ req[s].status \in {200, 500}
       /\ Len(aulas_reagendamentos) = Len(req[s].preReag) + 1
       /\ aulas_agendadas[req[s].id].status = "reagendada"
       /\ (req[s].status = 200 =>
             aulas_agendadas[req[s].novo_id].data_aula = req[s].nova_data)

\* some element of the weekday list is outside 0..6
ForaDoIntervalo(dias) == \E j \in 1..Len(dias) : dias[j] < 0 \/ dias[j] > 6

\* C13: configure with a weekday list holding a value outside 0..6, at any
\* position, answers 400 and leaves nothing behind: no lesson, no weekday row
\* and no occurrence created by the call exists afterwards.
C13_ConfigurarInvalidoSemRastro ==
  \A s \in Slots :
    (req[s].pc = "done" /\ req[s].op = "configurar" /\ ForaDoIntervalo(req[s].dias))
    => /\ req[s].status = 400
       /\ aulas_configuradas = req[s].preAulas
       /\ aulas_dias_semana = req[s].preDias
       /\ aulas_agendadas = req[s].preAg

\* What the code does: the lesson row is deleted and no occurrence was created,
\* but the weekday rows inserted before the offending element stay, under the
\* id of the deleted lesson.
ConfigurarInvalidoDeFato ==
  \A s \in Slots :
    (req[s].pc = "done" /\ req[s].op = "configurar" /\ ForaDoIntervalo(req[s].dias))
    => LET r == req[s]
           antes == SubSeq(r.dias, 1, r.i - 1)
       IN /\ r.status \in {400, 500}
          /\ r.status = 400 =>
               /\ aulas_configuradas = r.preAulas
               /\ aulas_agendadas = r.preAg
               /\ aulas_dias_semana =
                    r.preDias \o [j \in 1..Len(antes) |->
                                   [aula_id |-> r.alvo, dia_semana |-> antes[j]]]

\* the Monday of the Monday-to-Sunday week that holds day d
SegundaDaSemana(d) == d - (((d % 7) + 6) % 7)

\* C14: for an anchor date given to the weekly agenda, the window answered
\* starts on the Monday of the week that holds the anchor and ends on the
\* Sunday after it; for a Wednesday anchor that is 2 days before and 4 days
\* after the anchor.
C14_JanelaSegundaADomingo ==
  \A s \in Slots :
    (Done(s, "semanal", 200) /\ req[s].data_inicio.f = "date")
    => LET d == req[s].data_inicio.d
       IN /\ req[s].semana_inicio = DateText(SegundaDaSemana(d))
          /\ req[s].semana_fim = DateText(SegundaDaSemana(d) + 6)
          /\ (d % 7 = 3 => /\ req[s].semana_inicio = DateText(d - 2)
                           /\ req[s].semana_fim = DateText(d + 4))

\* What the code does: a given anchor is itself the first day of the window,
\* whatever its weekday; only the default anchor is moved to a Monday.  The
\* rows answered are those of existing lessons dated inside the window.
JanelaDeFato ==
  \A s \in Slots :
    Done(s, "semanal", 200) =>
      LET r == req[s]
          lo == IF r.data_inicio.f = "date" THEN r.data_inicio.d
                ELSE SegundaDaSemana((now + tz) \div 24)
      IN /\ r.semana_inicio = DateText(lo)
         /\ r.semana_fim = DateText(lo + 6)
         /\ {x.id : x \in r.resultado} =
              {k \in 1..Len(aulas_agendadas) :
                 /\ \E a \in aulas_configuradas :
                      a.id = aulas_agendadas[k].aula_configurada_id
                 /\ aulas_agendadas[k].data_aula.f \in {"date", "datetime"}
                 /\ aulas_agendadas[k].data_aula.d \in lo..(lo + 6)
                 /\ ~(aulas_agendadas[k].data_aula = DateTimeText(lo + 6))}

\* the occurrences the listing by period selects: those of the lesson, inside
\* the period when one is given
Selecionadas(r) ==
  {k \in 1..Len(aulas_agendadas) :
     /\ aulas_agendadas[k].aula_configurada_id = r.id
     /\ (r.data_inicio # Undefined /\ r.data_fim # Undefined)
          => Between(aulas_agendadas[k].data_aula, r.data_inicio, r.data_fim)}

\* the reschedule records of occurrence k, by rowid
RegistrosDe(k) ==
  {j \in 1..Len(aulas_reagendamentos) : aulas_reagendamentos[j].aula_agendada_id = k}

\* C15: the listing by period answers each selected occurrence of the lesson
\* exactly once, joined with its most recently created reschedule record, or
\* with none when it has none, also when the occurrence has several records.
C15_UmaLinhaPorOcorrencia ==
  \A s \in Slots :
    Done(s, "obter", 200) =>
      LET r == req[s]
      IN /\ {x.id : x \in r.resultado} = Selecionadas(r)
         /\ \A k \in Selecionadas(r) :
              /\ Cardinality({x \in r.resultado : x.id = k}) = 1
              /\ \A x \in r.resultado :
                   x.id = k =>
                     IF RegistrosDe(k) = {} THEN x.ar = 0
                     ELSE /\ x.ar \in RegistrosDe(k)
                          /\ \A j \in RegistrosDe(k) : j <= x.ar

\* What the code does: one row per pair of a selected occurrence and one of
\* its reschedule records, and one row for an occurrence without records.
LinhasDeFato ==
  \A s \in Slots :
    Done(s, "obter", 200) =>
      LET r == req[s]
      IN /\ {x.id : x \in r.resultado} = Selecionadas(r)
         /\ \A k \in Selecionadas(r) :
              {x.ar : x \in {y \in r.resultado : y.id = k}} =
                IF RegistrosDe(k) = {} THEN {0} ELSE RegistrosDe(k)

\* a listing of a lesson one of whose occurrences has two reschedule records
DuasVezesReagendada ==
  \E s \in Slots :
    /\ Done(s, "obter", 200)
    /\ \E k \in Selecionadas(req[s]) : Cardinality(RegistrosDe(k)) = 2

\* C16: once the deletion of a configured lesson has answered 200, no weekday
\* row and no occurrence row names that lesson, and no reschedule record names
\* an occurrence that belonged to it.  (Enrollment rows are outside the model.)
C16_ExcluirSemOrfaos ==
  \A s \in Slots :
    Done(s, "excluir", 200) =>
      LET id == req[s].id
      IN /\ \A k \in 1..Len(aulas_dias_semana) : aulas_dias_semana[k].aula_id # id
         /\ \A k \in 1..Len(aulas_agendadas) :
              aulas_agendadas[k].aula_configurada_id # id
         /\ \A j \in 1..Len(aulas_reagendamentos) :
              LET o == aulas_reagendamentos[j].aula_agendada_id
              IN o \in 1..Len(req[s].preAg) => req[s].preAg[o].aula_configurada_id # id

\* What the code does: only the lesson row goes; every other table is as it
\* was before the call.
ExcluirDeFato ==
  \A s \in Slots :
    Done(s, "excluir", 200) =>
      /\ aulas_configuradas = {a \in req[s].preAulas : a.id # req[s].id}
      /\ aulas_dias_semana = req[s].preDias
      /\ aulas_agendadas = req[s].preAg
      /\ aulas_reagendamentos = req[s].preReag

\* a deleted lesson that had weekday rows, occurrences and a reschedule record
ExcluirComFilhos ==
  \E s \in Slots :
    /\ Done(s, "excluir", 200)
    /\ \E k \in 1..Len(req[s].preDias) : req[s].preDias[k].aula_id = req[s].id
    /\ \E j \in 1..Len(req[s].preReag) :
         req[s].preAg[req[s].preReag[j].aula_agendada_id].aula_configurada_id = req[s].id

\* C17: an occurrence whose status is cancelada keeps that status in every
\* step of every operation.
C17_CanceladaTerminal ==
  [][\A k \in 1..Len(aulas_agendadas) :
       aulas_agendadas[k].status = "cancelada" => aulas_agendadas'[k].status = "cancelada"]_vars

\* What the code does: the status update of reschedule, for that occurrence, is
\* the only step that takes an occurrence out of cancelada, into reagendada.
CanceladaDeFato ==
  [][\A k \in 1..Len(aulas_agendadas) :
       (aulas_agendadas[k].status = "cancelada" /\ aulas_agendadas'[k].status # "cancelada")
       => /\ aulas_agendadas'[k].status = "reagendada"
          /\ \E s \in Slots : req[s].pc = "rea_update" /\ req[s].id = k]_vars

\* C18 as stated: an occurrence whose status is reagendada keeps that status in
\* every step of every operation.
C18_ReagendadaTerminal ==
  [][\A k \in 1..Len(aulas_agendadas) :
       aulas_agendadas[k].status = "reagendada" => aulas_agendadas'[k].status = "reagendada"]_vars

\* C18 amended: an occurrence whose status is reagendada keeps it in every step
\* except the status update of a cancel of that occurrence, which makes it
\* cancelada; reschedule, generate-occurrences, lesson update and lesson
\* deletion leave it reagendada.
C18_ReagendadaSoCancelar ==
  [][\A k \in 1..Len(aulas_agendadas) :
       aulas_agendadas[k].status = "reagendada" =>
         \/ aulas_agendadas'[k].status = "reagendada"
         \/ /\ aulas_agendadas'[k].status = "cancelada"
            /\ \E s \in Slots : req[s].pc = "can_update" /\ req[s].id = k]_vars

\* a second reschedule of an occurrence that was reagendada has run all its
\* writes, beside another occurrence, and the occurrence is still reagendada
C18_Witness ==
  \E s \in Slots :
    /\ req[s].pc = "done" /\ req[s].op = "reagendar" /\ req[s].status \in {200, 500}
    /\ req[s].preAg[req[s].id].status = "reagendada"
    /\ aulas_agendadas[req[s].id].status = "reagendada"
    /\ Len(req[s].preAg) >= 2

\* C19: configure given an empty weekday list, and generate-occurrences for a
\* lesson that has no weekday row, succeed, create no occurrence and report an
\* empty result instead of an error.
C19_DiasVaziosValido ==
  \A s \in Slots :
    /\ (req[s].pc = "done" /\ req[s].op = "configurar" /\ req[s].dias = <<>>)
       => (req[s].status = 201 /\ aulas_agendadas = req[s].preAg)
    /\ (/\ req[s].pc = "done" /\ req[s].op = "gerar"
        /\ AulaRows(req[s].id) # {}
        /\ DiasRowid(aulas_dias_semana, req[s].id) = <<>>)
       => /\ req[s].status = 200
          /\ req[s].agendamentos = <<>>
          /\ aulas_agendadas = req[s].preAg

\* What the code does: both calls answer 400 and write nothing.
DiasVaziosDeFato ==
  \A s \in Slots :
    /\ (req[s].pc = "done" /\ req[s].op = "configurar" /\ req[s].dias = <<>>)
       => (req[s].status = 400 /\ aulas_agendadas = req[s].preAg
           /\ aulas_configuradas = req[s].preAulas)
    /\ (/\ req[s].pc = "done" /\ req[s].op = "gerar"
        /\ AulaRows(req[s].id) # {}
        /\ DiasRowid(aulas_dias_semana, req[s].id) = <<>>)
       => (req[s].status = 400 /\ aulas_agendadas = req[s].preAg)

\* a generate run for an existing lesson whose weekday rows an update removed
GerarSemDias ==
  \E s \in Slots :
    /\ req[s].pc = "done" /\ req[s].op = "gerar"
    /\ AulaRows(req[s].id) # {}
    /\ DiasRowid(aulas_dias_semana, req[s].id) = <<>>
    /\ req[s].prev.op = "atualizar"

\* the dates of n weeks, all weeks of the first weekday before any date of the
\* next weekday
OrdemDiaSemana(inicio, dias, n) ==
  [p \in 1..(Len(dias) * n) |->
     dataAula(inicio, dias[((p - 1) \div n) + 1], (p - 1) % n, tz)]

\* the dates of n weeks, all weekdays of the first week before any date of the
\* next week
OrdemSemanaDia(inicio, dias, n) ==
  [p \in 1..(Len(dias) * n) |->
     dataAula(inicio, dias[((p - 1) % Len(dias)) + 1], (p - 1) \div Len(dias), tz)]

\* the data_aula of the rows that a request added to the occurrence table, in
\* insertion order
DatasInseridas(r) ==
  [j \in 1..(Len(aulas_agendadas) - Len(r.preAg)) |->
     aulas_agendadas[Len(r.preAg) + j].data_aula]

\* C20: the dates are gone through weekday by weekday, in the order of the
\* weekday list, all weeks of a weekday before any date of the next weekday:
\* configure inserts its occurrences in that order and generate-occurrences
\* goes through its candidates in that order.
C20_OrdemDiaDepoisSemana ==
  \A s \in Slots :
    /\ Done(s, "configurar", 201)
         => DatasInseridas(req[s]) = OrdemDiaSemana(req[s].data_inicio, req[s].dias, 4)
    /\ Done(s, "gerar", 200)
         => req[s].consultadas =
              OrdemDiaSemana(req[s].aula, req[s].dias, LimiteSemanas(req[s].semanas))

\* What the code does: week by week, and inside a week in the order of the
\* weekday list (for generate-occurrences, the order in which the store
\* answered the lesson's weekday rows).
OrdemDeFato ==
  \A s \in Slots :
    /\ Done(s, "configurar", 201)
         => DatasInseridas(req[s]) = OrdemSemanaDia(req[s].data_inicio, req[s].dias, 4)
    /\ Done(s, "gerar", 200)
         => req[s].consultadas =
              OrdemSemanaDia(req[s].aula, req[s].dias, LimiteSemanas(req[s].semanas))

\* a generate run over two weekdays that inserted every candidate of two weeks
GerarDoisDias ==
  \E s \in Slots :
    /\ Done(s, "gerar", 200)
    /\ Len(req[s].dias) = 2
    /\ Len(req[s].agendamentos) >= 4

\* the date a generate run is at: the candidate of its loop position
DataDaVez(r) == dataAula(r.aula, r.dias[r.i], r.semana, tz)

\* C21: two generate-occurrences requests for one lesson can both have passed
\* the existence check for the same date before either inserts (C21_Witness is
\* the outcome).  When the first has inserted, the insert of the second is
\* rejected: that request ends with 500, the table stays as it is and holds
\* one row for that lesson and date.
C21_SegundoInsertRejeitado ==
  [][\A s \in Slots :
       (/\ req[s].pc = "ger_insert"
        /\ req'[s] # req[s]
        /\ AgendadaExiste(aulas_agendadas, req[s].id, DataDaVez(req[s])))
       => /\ req'[s].pc = "done" /\ req'[s].status = 500
          /\ aulas_agendadas' = aulas_agendadas
          /\ Cardinality({k \in 1..Len(aulas_agendadas') :
                /\ aulas_agendadas'[k].aula_configurada_id = req[s].id
                /\ aulas_agendadas'[k].data_aula = DataDaVez(req[s])}) = 1]_vars

\* two generate runs of one lesson have finished: one answered 500 at a date
\* that the other inserted and listed
C21_Witness ==
  \E s, q \in Slots :
    /\ s # q
    /\ Done(s, "gerar", 500)
    /\ req[q].op = "gerar" /\ req[q].pc = "done" /\ req[q].id = req[s].id
    /\ DataDaVez(req[s]) \in DatasDaLista(req[q].agendamentos)

\* both runs are past the existence check for the same date, neither has inserted
AmbosPassaramVerificacao ==
  \E s, q \in Slots :
    /\ s # q
    /\ req[s].op = "gerar" /\ req[q].op = "gerar"
    /\ req[s].pc = "ger_insert" /\ req[q].pc = "ger_insert"
    /\ req[s].id = req[q].id
    /\ DataDaVez(req[s]) = DataDaVez(req[q])

\* a configure call that got as far as inserting the lesson and did not answer 201
ConfigurarFalhou(r) ==
  r.pc = "done" /\ r.op = "configurar" /\ r.alvo # 0 /\ r.status # 201

\* C22: when configure fails in its weekday-insertion loop, by an out-of-range
\* weekday or by a rejected insert such as that of a repeated weekday, the
\* lesson it created is gone when the error is answered.
C22_FalhaRemoveAula ==
  \A s \in Slots :
    (ConfigurarFalhou(req[s]) /\ ~\E k \in 1..Len(aulas_agendadas) :
                                    aulas_agendadas[k].aula_configurada_id = req[s].alvo)
    => AulaRows(req[s].alvo) = {}

\* What the code does: the lesson is deleted on the 400 of the range test
\* only; when an insert is rejected the catch answers 500 and the lesson stays.
FalhaDeFato ==
  \A s \in Slots :
    ConfigurarFalhou(req[s]) =>
      /\ req[s].status \in {400, 500}
      /\ (AulaRows(req[s].alvo) = {}) <=> (req[s].status = 400)

\* a generate run answered 200 right after a failed run of the same call
RepeticaoAposFalha(r) ==
  /\ r.pc = "done" /\ r.op = "gerar" /\ r.status = 200
  /\ r.prev.op = "gerar" /\ r.prev.status = 500
  /\ r.prev.id = r.id /\ r.prev.semanas = r.semanas

\* C23: a generate run whose insert fails in the middle of the loop answers 500
\* and the rows it inserted before stay in the table; a successful run of the
\* same call right after it inserts exactly the candidate dates that have no
\* occurrence yet, each once.
C23_FalhaSemRollback ==
  \A s \in Slots :
    LET r == req[s]
        novas == DatasDaLista(r.agendamentos)
    IN /\ Done(s, "gerar", 500) =>
            /\ Len(aulas_agendadas) = Len(r.preAg) + Len(r.agendamentos)
            /\ \A k \in 1..Len(r.preAg) : aulas_agendadas[k] = r.preAg[k]
            /\ \A j \in 1..Len(r.agendamentos) :
                 aulas_agendadas[Len(r.preAg) + j] =
                   NovaAgendada(r.id, r.agendamentos[j].data_aula)
       /\ RepeticaoAposFalha(r) =>
            /\ novas = Candidatas(r.aula, r.dias, 0, LimiteSemanas(r.semanas))
                         \ DatasDaAula(r.preAg, r.id)
            /\ Cardinality(novas) = Len(r.agendamentos)
            /\ Len(aulas_agendadas) = Len(r.preAg) + Len(r.agendamentos)
            /\ DatasDaAula(aulas_agendadas, r.id) = DatasDaAula(r.preAg, r.id) \cup novas

\* the failed run had inserted some rows, and the run after it had rows to insert
C23_Witness ==
  \E s \in Slots :
    /\ RepeticaoAposFalha(req[s])
    /\ req[s].prev.n > 0
    /\ req[s].agendamentos # <<>>

\* the lesson and the date of an occurrence row
AulaEData(row) ==
  [aula_configurada_id |-> row.aula_configurada_id, data_aula |-> row.data_aula]

\* C24: the occurrence rows and their dates change only by the inserts of
\* configure, generate-occurrences and reschedule, and by no step is a row
\* removed or re-dated, the deletion of the parent lesson apart: every step
\* of cancel and of lesson update (of start date or of weekdays) leaves the
\* rows, their lessons and their dates as they are.  (Enrollment is outside
\* the model.)
C24_SoInsercoesMudam ==
  [][/\ Len(aulas_agendadas') >= Len(aulas_agendadas)
     /\ (\A s \in Slots : req[s].pc # "exc_delete")
          => \A k \in 1..Len(aulas_agendadas) :
               AulaEData(aulas_agendadas'[k]) = AulaEData(aulas_agendadas[k])
     /\ Len(aulas_agendadas') > Len(aulas_agendadas)
          => \E s \in Slots :
               /\ req[s].pc \in {"cfg_insert_ag", "ger_insert", "rea_insert_ag"}
               /\ req'[s] # req[s]
               /\ Len(aulas_agendadas') = Len(aulas_agendadas) + 1]_vars

\* a lesson update that changed the start date of a lesson with occurrences, and
\* a cancel, have been served
C24_Witness ==
  \E s \in Slots :
    /\ Done(s, "atualizar", 200)
    /\ req[s].data_inicio # Undefined
    /\ \E a \in req[s].preAulas : a.id = req[s].id /\ a.data_inicio # req[s].data_inicio
    /\ \E k \in 1..Len(aulas_agendadas) :
         aulas_agendadas[k].aula_configurada_id = req[s].id
    /\ req[s].prev.op = "cancelar" /\ req[s].prev.status = 200

\* a lesson update that replaced the weekdays of a lesson with occurrences
AtualizarDiasComOcorrencias ==
  \E s \in Slots :
    /\ Done(s, "atualizar", 200)
    /\ req[s].hasDias /\ req[s].dias # <<>>
    /\ DiasRowid(req[s].preDias, req[s].id) # req[s].dias
    /\ \E k \in 1..Len(aulas_agendadas) :
         aulas_agendadas[k].aula_configurada_id = req[s].id

\* C25: in every reachable state, whatever configure and lesson-update calls
\* were served, also with a weekday list that repeats a value, no lesson has
\* two weekday rows with the same weekday.
C25_DiaUnicoPorAula ==
  \A j, k \in 1..Len(aulas_dias_semana) :
    (/\ aulas_dias_semana[j].aula_id = aulas_dias_semana[k].aula_id
     /\ aulas_dias_semana[j].dia_semana = aulas_dias_semana[k].dia_semana)
    => j = k

\* a lesson update with a list that repeats a weekday was answered, after the
\* first of the two inserts
C25_Witness ==
  \E s \in Slots :
    /\ req[s].pc = "done" /\ req[s].op = "atualizar"
    /\ req[s].dias = <<1, 1>>
    /\ \E k \in 1..Len(aulas_dias_semana) :
         aulas_dias_semana[k].aula_id = req[s].id /\ aulas_dias_semana[k].dia_semana = 1

\* the same for configure
ConfigurarDiaRepetido ==
  \E s \in Slots :
    /\ req[s].pc = "done" /\ req[s].op = "configurar"
    /\ req[s].dias = <<1, 1>>
    /\ \E k \in 1..Len(aulas_dias_semana) :
         aulas_dias_semana[k].aula_id = req[s].alvo /\ aulas_dias_semana[k].dia_semana = 1

\* C26: whenever reschedule answers an error, in particular the 500 of a
\* newDate that the lesson already has an occurrence at, the occurrence has the
\* status it had and no reschedule record has been added.
C26_ReagendarTudoOuNada ==
  \A s \in Slots :
    (/\ req[s].pc = "done" /\ req[s].op = "reagendar" /\ req[s].status # 200
     /\ req[s].id \in 1..Len(req[s].preAg))
    => /\ aulas_agendadas[req[s].id].status = req[s].preAg[req[s].id].status
       /\ aulas_reagendamentos = req[s].preReag

\* What the code does: the 400 of the date test leaves everything as it was;
\* the 500 of the rejected insert comes after the record was appended and the
\* occurrence marked, and neither is undone.
ReagendarErroDeFato ==
  \A s \in Slots :
    (/\ req[s].pc = "done" /\ req[s].op = "reagendar" /\ req[s].status # 200
     /\ req[s].id \in 1..Len(req[s].preAg))
    => LET r == req[s]
       IN /\ r.status \in {400, 500}
          /\ r.status = 400 =>
               (aulas_agendadas = r.preAg /\ aulas_reagendamentos = r.preReag)
          /\ r.status = 500 =>
               /\ aulas_agendadas = UpdateStatus(r.preAg, r.id, "reagendada")
               /\ aulas_reagendamentos =
                    Append(r.preReag, [aula_agendada_id |-> r.id,
                                       nova_data |-> r.nova_data, motivo |-> r.motivo])
               /\ AgendadaExiste(r.preAg, r.preAg[r.id].aula_configurada_id, r.nova_data)

\* a reschedule of an occurrence that was agendada answered 500
ReagendarColidiu ==
  \E s \in Slots :
    /\ Done(s, "reagendar", 500)
    /\ req[s].preAg[req[s].id].status = "agendada"

\* both slots hold an answered generate run of the same lesson, with the same
\* week count and the same weekdays, that got as far as its loop
DuasRodadas(s, q) ==
  /\ s # q
  /\ req[s].pc = "done" /\ req[s].op = "gerar" /\ req[s].status \in {200, 500}
  /\ req[q].pc = "done" /\ req[q].op = "gerar" /\ req[q].status \in {200, 500}
  /\ req[s].id = req[q].id /\ req[s].semanas = req[q].semanas
  /\ req[s].aula = req[q].aula /\ req[s].dias = req[q].dias

\* C27: of two generate-occurrences requests for one lesson with the same week
\* count, however their steps interleave, at most one ends with 500, and when
\* both have ended every candidate date of those weeks has an occurrence.
C27_NoMaximoUmaFalha ==
  \A s, q \in Slots :
    DuasRodadas(s, q) =>
      /\ ~(req[s].status = 500 /\ req[q].status = 500)
      /\ Candidatas(req[s].aula, req[s].dias, 0, LimiteSemanas(req[s].semanas))
           \subseteq DatasDaAula(aulas_agendadas, req[s].id)

\* the two runs overlapped: one lost the race for a date that the other inserted
C27_Witness ==
  \E s, q \in Slots :
    /\ DuasRodadas(s, q)
    /\ req[s].status = 500 /\ req[q].status = 200
    /\ DataDaVez(req[s]) \in DatasDaLista(req[q].agendamentos)
    /\ LimiteSemanas(req[s].semanas) > 4

\* C28: no step gives an occurrence the status realizada: after every step the
\* status of every occurrence is agendada, cancelada or reagendada, and every
\* row a step adds has status agendada.
C28_NuncaRealizada ==
  [][/\ \A k \in 1..Len(aulas_agendadas') :
          aulas_agendadas'[k].status \in {"agendada", "cancelada", "reagendada"}
     /\ \A k \in (Len(aulas_agendadas) + 1)..Len(aulas_agendadas') :
          aulas_agendadas'[k].status = "agendada"]_vars

\* the table holds an occurrence of each of the three statuses
C28_Witness ==
  \A st \in {"agendada", "cancelada", "reagendada"} :
    \E k \in 1..Len(aulas_agendadas) : aulas_agendadas[k].status = st

\* the weekday values on file for a lesson
DiasGravados(ds, aula) ==
  {ds[k].dia_semana : k \in {j \in 1..Len(ds) : ds[j].aula_id = aula}}

\* an update of an existing lesson whose new weekday list has a value outside 0..6
AtualizarForaDoIntervalo(s) ==
  /\ req[s].pc = "done" /\ req[s].op = "atualizar" /\ req[s].status # 404
  /\ req[s].hasDias /\ ForaDoIntervalo(req[s].dias)

\* C29: an update whose new weekday list contains a value outside 0..6 answers
\* 400 and leaves the weekday set on file for the lesson as it was before the
\* call.
C29_AtualizarInvalidoPreserva ==
  \A s \in Slots :
    AtualizarForaDoIntervalo(s) =>
      /\ req[s].status = 400
      /\ DiasGravados(aulas_dias_semana, req[s].id) = DiasGravados(req[s].preDias, req[s].id)

\* What the code does: the answer is 400, the rows the lesson had are gone,
\* and the values listed ahead of the first one out of range are on file in
\* their place; the rows of other lessons are untouched.
AtualizarInvalidoDeFato ==
  \A s \in Slots :
    AtualizarForaDoIntervalo(s) =>
      /\ req[s].status = 400
      /\ aulas_dias_semana =
           SelectSeq(req[s].preDias, LAMBDA d : d.aula_id # req[s].id) \o
           [j \in 1..(req[s].i - 1) |->
              [aula_id |-> req[s].id, dia_semana |-> req[s].dias[j]]]

\* a rejected update of a lesson that had a weekday the new list does not name
AtualizarInvalidoPerdeuDia ==
  \E s \in Slots :
    /\ AtualizarForaDoIntervalo(s)
    /\ aulas_dias_semana # req[s].preDias
    /\ 3 \in DiasGravados(req[s].preDias, req[s].id)
    /\ 3 \notin DiasGravados(aulas_dias_semana, req[s].id)

\* C30: in every reachable state, between the steps of overlapping requests
\* and after a reschedule that answered an error included, every occurrence
\* whose status is reagendada has at least one reschedule record that
\* references it.
C30_ReagendadaTemRegistro ==
  \A k \in 1..Len(aulas_agendadas) :
    aulas_agendadas[k].status = "reagendada" => RegistrosDe(k) # {}

\* a reschedule answered 500 while another reschedule of the same occurrence
\* is between its steps; the occurrence is reagendada
C30_Witness ==
  \E s, q \in Slots :
    /\ Done(s, "reagendar", 500)
    /\ req[q].op = "reagendar" /\ req[q].pc \in {"rea_update", "rea_insert_ag"}
    /\ req[q].id = req[s].id
    /\ aulas_agendadas[req[s].id].status = "reagendada"

====
